---- MODULE Spec2Model ----
(***************************************************************************)
(* A model of the lgtm extraction pipeline: the orchestrator               *)
(* (src/src/main.py, DataExtractor), the GitHub App token cache            *)
(* (src/src/github_client.py, GitHubAppAuth) and the rate-limited gateway  *)
(* (src/src/github_client.py, GitHubClient._request).                      *)
(*                                                                         *)
(* The three components are checked under their own specifications (Spec,  *)
(* AuthSpec, GatewaySpec); the variables of the components a specification *)
(* does not exercise stay at their initial values.                         *)
(*                                                                         *)
(* Scheduling follows trio: tasks are cooperative, a step of the model runs *)
(* a task from one await to the next, and a cancelled scope delivers       *)
(* Cancelled at the next await of every task in it, except to a task whose *)
(* await had already completed when the scope was cancelled: such a task   *)
(* runs once more, up to its next await. A task that gets Cancelled        *)
(* changes nothing but its own position, so the step that cancels the      *)
(* scope also takes the blocked tasks out.                                  *)
(***************************************************************************)
EXTENDS Integers, Sequences, FiniteSets, TLC

(* ---- bounds of the model ---- *)
\* units 1..MaxUnits are what the remote listing serves, oldest first
MaxUnits == 2
\* worker tasks started by run() (CONCURRENT_PRS = 4 in the source)
NumWorkers == 2
\* capacity of the memory channel (PR_QUEUE_SIZE = 50 in the source)
QueueCap == 2
\* runs of the process over the same data directory (restart after a crash,
\* an error or a normal return)
MaxRuns == 2

\* concurrent callers of get_token
NumCallers == 3
\* minutes the model's clock of the token cache runs
MaxClock == 3
\* minutes an exchanged installation token lives (60 at GitHub)
TokenLifetime == 8
\* calls of _request in one behaviour
MaxCalls == 2

\* items an endpoint holds, the page sizes and the max_pages arguments tried
MaxItems == 5
MaxPerPage == 3
MaxPagesArg == 2

\* child rows a unit can have at the remote
MaxRows == 1
\* calls of _process_single_pr and kills of the process in one behaviour
MaxProcessings == 2
MaxKills == 1
MaxListed == 3
MaxLimit == 2
MaxTicks == 2

(* ---- constants of the program ---- *)
\* timedelta(minutes=5) of get_token
RefreshMargin == 5
\* max(reset_time - time.time(), 60) of _handle_rate_limit
PrimaryMinWait == 60
\* response.headers.get("Retry-After", 60)
DefaultRetryAfter == 60
\* max_retries: int = 3 of _request
MaxRetries == 3
CONCURRENT_PRS == 4
PR_QUEUE_SIZE == 50

Units == 1..MaxUnits
Callers == 1..NumCallers
Workers == 1..NumWorkers
RowIds == 1..MaxRows
Listed == 1..MaxListed
Rows == Units \X RowIds
AuxTasks == {"prod", "ckpt", "dash"}

VARIABLES
    \* ---- disk ----
    store,            \* data/raw/prs.parquet: the number of rows per unit
    ckptProcessed,    \* "processed_prs" of the checkpoint file
    ckptFailed,       \* pr_numbers of "failed_prs" of the checkpoint file
    \* ---- DataExtractor fields ----
    processed_prs,    \* self.processed_prs
    pending_prs,      \* self.pending_prs
    prs,              \* self.prs (the pr_number of each buffered record)
    failed_prs,       \* keys of self.failed_prs
    stop_requested,   \* self._stop_requested
    state,            \* self.stats.state
    stats_processed,  \* self.stats.processed_prs
    stats_skipped,    \* self.stats.skipped_prs
    \* ---- run() and its nursery ----
    runPc,            \* where run() is: idle, running, final_store, final_ckpt,
                      \*   final_log, returned, raised (the exception of a
                      \*   child left run), failed_save (the final save
                      \*   raised), crashed
    runs,             \* runs started so far
    cancelled,        \* nursery.cancel_scope.cancel_called
    childError,       \* a child task has raised an exception other than Cancelled
    queue,            \* the memory channel
    prodPc,           \* _pr_producer: list, ratewait, send_list, send_replay,
                      \*   replay, exited
    listPos,          \* units the listing generator has yielded so far
    prodItem,         \* the unit a blocked send holds
    replayLeft,       \* rest of list(self.failed_prs.keys())
    wPc,              \* _pr_worker: recv, extract, exited
    cur,              \* the unit a worker is extracting (0: none)
    ckptPc,           \* _checkpoint_task: sleep, saving, probe, exited
    lastProcessed,    \* last_processed of _checkpoint_task
    dashPc,           \* _dashboard_task: sleep, exited
    sigPc,            \* _signal_watcher: wait, exited
    \* ---- GitHubAppAuth ----
    token,            \* self._token (0: None, else the serial of the token)
    token_expires_at, \* self._token_expires_at, in minutes (0 with no token)
    lockHolder,       \* owner of self._refresh_lock (0: unlocked)
    lockWaiters,      \* tasks parked in the lock, first come first served
    aPc,              \* get_token of each caller: idle, wait_lock, locked,
                      \*   fetching, returned, raised
    aResult,          \* the token get_token returned to each caller (0: none)
    authNow,          \* datetime.now(UTC), in minutes
    exchanges,        \* calls of _fetch_installation_token so far
    failedExchange,   \* callers whose exchange HTTP call failed
    initValid,        \* the cached token was valid when the callers started
    \* ---- GitHubClient._request ----
    gPc,              \* idle, await_resp, sleeping, returned, raised
    authExpiresAt,    \* when the token of request_headers["Authorization"]
                      \*   expires, in seconds (0: a PAT, which does not)
    rlGauge,          \* what reading client.rate_limit_remaining gives:
                      \*   whether the attribute exists, and its value
    attempt,          \* the loop variable of _request
    gNow,             \* time.time(), in seconds
    resp,             \* the response being handled
    respAt,           \* when it was received
    wakeAt,           \* when the pending trio.sleep ends
    sleepCause,       \* none, primary, secondary, server
    request_count,    \* self._request_count
    calls,            \* calls of _request so far
    rlCount,          \* rate-limit responses received by this call
    otherCount,       \* other responses received by this call
    raiseCause,       \* none, status, transport, max_retries
    \* ---- GitHubClient.paginate ----
    totalItems,       \* items the endpoint holds (item i is the number i)
    per_page,         \* PER_PAGE
    max_pages,        \* the max_pages argument (0: None)
    page,             \* the page to request next
    yielded,          \* the items yielded so far, in order
    pageRequests,     \* calls of _request made by paginate
    pgPc,             \* running, done, raised
    \* ---- one DataExtractor at the level of its records ----
    details,          \* the PRDetails extract_pr_details has returned
    buf_prs,          \* self.prs: how many records of each unit it holds
    buf_reviews,      \* self.reviews (for every child buffer): how many
                      \*   copies of each row it holds
    rec_pending,      \* self.pending_prs
    rec_processed,    \* self.processed_prs
    rec_failed,       \* self.failed_prs: the retries of each unit's
                      \*   ErrorRecord (0: no record)
    stats_failed,     \* self.stats.failed_prs
    last_error,       \* self.stats.last_error
    tbl_prs,          \* prs.parquet: rows of each unit
    tbl_reviews,      \* reviews.parquet (for every child table): copies of
                      \*   each row
    files,            \* the checkpoint file and its temporary file
    refreshed,        \* recent_prs of the last load_checkpoint
    recPc,            \* idle, store, open, dump, rename, dead
    processings,      \* calls of _process_single_pr so far
    kills,            \* kills of the process so far
    \* ---- one run of the producer, the merges and the ticks, counted ----
    limit,            \* the limit argument of run() (0: None)
    queued,           \* queued of _pr_producer
    enqueued,         \* items sent on the channel in this run
    lstPc,            \* _pr_producer: list, replay, done
    lstPos,           \* units the listing has yielded so far
    lstReplay,        \* rest of list(self.failed_prs.keys())
    lstChan,          \* the items in the channel or in a worker's hands
    lstProcessed,     \* self.processed_prs
    lstPending,       \* self.pending_prs
    lstFailed,        \* keys of self.failed_prs
    lstSkipped,       \* self.stats.skipped_prs
    lstStats,         \* self.stats.processed_prs
    last_processed,   \* last_processed of _checkpoint_task
    ticks             \* wake-ups of _checkpoint_task so far

diskVars == <<store, ckptProcessed, ckptFailed>>
memVars == <<processed_prs, pending_prs, prs, failed_prs, stop_requested, state,
             stats_processed, stats_skipped>>
nurseryVars == <<cancelled, childError>>
prodVars == <<prodPc, listPos, prodItem, replayLeft>>
workerVars == <<wPc, cur>>
ckptVars == <<ckptPc, lastProcessed>>
orchVars == <<diskVars, memVars, runPc, runs, nurseryVars, queue, prodVars,
              workerVars, ckptVars, dashPc, sigPc>>
authVars == <<token, token_expires_at, lockHolder, lockWaiters, aPc, aResult,
              authNow, exchanges, failedExchange, initValid>>
gwVars == <<gPc, authExpiresAt, rlGauge, attempt, gNow, resp, respAt, wakeAt, sleepCause, request_count,
            calls, rlCount, otherCount, raiseCause>>
pgVars == <<totalItems, per_page, max_pages, page, yielded, pageRequests, pgPc>>
recMem == <<details, buf_prs, buf_reviews, rec_pending, rec_processed,
            rec_failed, stats_failed, last_error>>
recVars == <<recMem, tbl_prs, tbl_reviews, files, refreshed, recPc,
             processings, kills>>
lstVars == <<limit, queued, enqueued, lstPc, lstPos, lstReplay, lstChan,
             lstProcessed, lstPending, lstFailed, lstSkipped, lstStats,
             last_processed, ticks>>
vars == <<orchVars, authVars, gwVars, pgVars, recVars, lstVars>>

\* what a step of one component leaves alone
exceptOrch == <<authVars, gwVars, pgVars, recVars, lstVars>>
exceptAuth == <<orchVars, gwVars, pgVars, recVars, lstVars>>
exceptGw == <<orchVars, authVars, pgVars, recVars, lstVars>>
exceptPg == <<orchVars, authVars, gwVars, recVars, lstVars>>
exceptRec == <<orchVars, authVars, gwVars, pgVars, lstVars>>
exceptLst == <<orchVars, authVars, gwVars, pgVars, recVars>>

(* ---- helpers ---- *)
SeqSet(s) == {s[i] : i \in 1..Len(s)}

\* the number of records of unit u in a buffer
Count(s, u) == Cardinality({i \in 1..Len(s) : s[i] = u})

\* a save that would write the batch over the existing table
OverwriteWithBatch(existing, batch) == [u \in Units |-> Count(batch, u)]

\* upsert_table for a pr_number-keyed table: the rows of the units of the
\* batch are dropped from the existing table, the batch is appended, one row
\* per record of the buffer (an empty batch writes nothing)
UpsertUnits(existing, batch) ==
    [u \in Units |-> IF u \in SeqSet(batch) THEN Count(batch, u)
                                             ELSE existing[u]]

\* the units that have a row in prs.parquet
StoredUnits == {u \in Units : store[u] > 0}

\* merge_details: stats.processed_prs as recomputed at every merge
MergedCount(processed, pending, skipped) ==
    Cardinality(processed) + Len(pending) - skipped

(***************************************************************************)
(* The orchestrator: DataExtractor.run and its child tasks                 *)
(***************************************************************************)

\* synchronous code runs to its next await: while the checkpoint task is
\* between save_parquet_incremental and save_checkpoint no other task runs
Sync == runPc = "running" /\ ckptPc # "saving"

\* where a task is after a step that ends at await p: in a cancelled scope the
\* await raises Cancelled, which nothing in the tasks catches
AtAwait(p) == IF cancelled THEN "exited" ELSE p

\* the tasks whose await can have completed already when the scope is
\* cancelled: a listing page or a sleep of the producer, the sleep or the probe
\* of the checkpoint task, the last sub-fetch of a worker or its receive (an
\* item was there, or the channel was closed). Such a task runs once more, up
\* to its next await; every other task gets Cancelled where it is blocked.
\* (The dashboard task, resumed or not, only leaves.)
AwaitDoneAux ==
    {t \in AuxTasks : \/ t = "prod" /\ prodPc \in {"list", "ratewait", "replay"}
                      \/ t = "ckpt" /\ ckptPc \in {"sleep", "probe"}}
AwaitDoneW ==
    {w \in Workers : \/ wPc[w] = "extract"
                     \/ wPc[w] = "recv" /\ (queue # <<>> \/ prodPc = "exited")}

\* Cancelled is raised at the await the worker is blocked in: the receive, or
\* a sub-fetch of the unit it is extracting ("except Exception" does not catch
\* trio.Cancelled, a BaseException): the unit is dropped
WorkerPcOnCancel(w, resumed) == IF w \in resumed THEN wPc[w] ELSE "exited"

\* nursery.cancel_scope.cancel(), called by task self (which sets its own
\* variables): what becomes of the other tasks
CancelScope(self) ==
    /\ cancelled' = TRUE
    /\ \E ra \in IF cancelled THEN {AuxTasks} ELSE SUBSET (AwaitDoneAux \ {self}) :
       \E rw \in IF cancelled THEN {Workers} ELSE SUBSET AwaitDoneW :
         /\ IF self = "prod" THEN TRUE
            ELSE /\ prodPc' = IF "prod" \in ra THEN prodPc ELSE "exited"
                 /\ prodItem' = IF "prod" \in ra THEN prodItem ELSE 0
         /\ IF self = "ckpt" THEN TRUE
            ELSE ckptPc' = IF "ckpt" \in ra THEN ckptPc ELSE "exited"
         /\ wPc' = [w \in Workers |-> WorkerPcOnCancel(w, rw)]
         /\ cur' = [w \in Workers |->
                      IF WorkerPcOnCancel(w, rw) = "extract" THEN cur[w] ELSE 0]
         /\ dashPc' = IF cancelled THEN dashPc ELSE "exited"
         /\ IF self = "sig" THEN TRUE
            ELSE sigPc' = IF cancelled THEN sigPc ELSE "exited"

\* task self raises an exception: the nursery keeps it and cancels its scope
ChildRaises(self) ==
    /\ childError' = TRUE
    /\ CancelScope(self)

\* a step of the producer / of the checkpoint task that raises nothing
QuietProd == UNCHANGED <<cancelled, childError, workerVars, ckptPc, dashPc, sigPc>>
QuietCkpt == UNCHANGED <<cancelled, childError, workerVars, prodPc, prodItem,
                         dashPc, sigPc>>

\* load_checkpoint(refresh_days): recent is the set of stored units created
\* inside the refresh window (empty without refresh_days)
LoadProcessed(recent) == ckptProcessed \ recent

\* DataExtractor.__init__, load_checkpoint and the start of the nursery
StartRun ==
    /\ runPc \in {"idle", "returned", "raised", "failed_save", "crashed"}
    /\ runs < MaxRuns
    /\ runs' = runs + 1
    /\ runPc' = "running"
    /\ \E recent \in SUBSET StoredUnits : processed_prs' = LoadProcessed(recent)
    /\ failed_prs' = ckptFailed
    /\ pending_prs' = <<>>
    /\ prs' = <<>>
    /\ stop_requested' = FALSE
    /\ state' = "running"
    /\ stats_processed' = 0
    /\ stats_skipped' = 0
    /\ cancelled' = FALSE
    /\ childError' = FALSE
    /\ queue' = <<>>
    /\ prodPc' = "list"
    /\ listPos' = 0
    /\ prodItem' = 0
    /\ replayLeft' = {}
    /\ wPc' = [w \in Workers |-> "recv"]
    /\ cur' = [w \in Workers |-> 0]
    /\ ckptPc' = "sleep"
    /\ lastProcessed' = 0
    /\ dashPc' = "sleep"
    /\ sigPc' = "wait"
    /\ UNCHANGED diskVars

\* a watcher that would leave the state as it is
StateLeftRunning == "running"

\* the state _signal_watcher sets: ExtractionState.PAUSED
StateOnSignal == "paused"

\* _signal_watcher: SIGINT or SIGTERM is received
Signal ==
    /\ Sync
    /\ sigPc = "wait"
    /\ stop_requested' = TRUE
    /\ state' = StateOnSignal
    /\ CancelScope("sig")
    /\ sigPc' = "exited"
    /\ UNCHANGED <<diskVars, processed_prs, pending_prs, prs, failed_prs,
                   stats_processed, stats_skipped, runPc, runs, childError,
                   queue, listPos, replayLeft, lastProcessed>>

(* ---- _pr_producer ---- *)

\* what reading self.client.rate_limit_remaining can give: a value at or above
\* RATE_LIMIT_PRODUCER_PAUSE, a value below it, or AttributeError (the
\* GitHubClient of github_client.py defines no such attribute; the clients of
\* tests/test_main.py do)
Gauges == {"ok", "low", "missing"}

\* a send on a channel without a capacity
SendUnbounded(u, backPc, blockPc) ==
    /\ queue' = Append(queue, u)
    /\ prodPc' = IF cancelled THEN "exited" ELSE backPc
    /\ prodItem' = 0

\* await send_channel.send(pr): a checkpoint that raises Cancelled in a
\* cancelled scope, puts the item when there is room, and blocks otherwise
Send(u, backPc, blockPc) ==
    IF cancelled
    THEN /\ prodPc' = "exited"
         /\ queue' = queue
         /\ prodItem' = 0
    ELSE IF Len(queue) < QueueCap
         THEN /\ queue' = Append(queue, u)
              /\ prodPc' = backPc
              /\ prodItem' = 0
         ELSE /\ queue' = queue
              /\ prodPc' = blockPc
              /\ prodItem' = u

\* lines 609-620, after _wait_for_rate_limit has returned: count the unit,
\* skip it when it is processed, send it otherwise
AfterRateLimit(u) ==
    IF u \in processed_prs
    THEN /\ stats_skipped' = stats_skipped + 1
         /\ prodPc' = AtAwait("list")
         /\ UNCHANGED <<queue, prodItem>>
    ELSE /\ Send(u, "list", "send_list")
         /\ UNCHANGED stats_skipped

\* one iteration of "async for pr in self.client.get_pull_requests(...)"
ProducerList ==
    /\ Sync
    /\ prodPc = "list"
    /\ \/ \* the generator is exhausted: on to list(self.failed_prs.keys())
          /\ listPos = MaxUnits
          /\ replayLeft' = failed_prs
          /\ prodPc' = IF stop_requested THEN "exited" ELSE AtAwait("replay")
          /\ QuietProd
          /\ UNCHANGED <<listPos, prodItem, queue, stats_skipped>>
       \/ \* fetching the next page raises (an HTTP error, retries exhausted)
          /\ listPos < MaxUnits
          /\ prodPc' = "exited"
          /\ ChildRaises("prod")
          /\ UNCHANGED <<listPos, prodItem, replayLeft, queue, stats_skipped>>
       \/ \* the generator yields the next unit
          /\ listPos < MaxUnits
          /\ listPos' = listPos + 1
          /\ IF stop_requested
             THEN \* break, then break out of the replay loop as well
                  /\ prodPc' = "exited"
                  /\ QuietProd
                  /\ UNCHANGED <<prodItem, replayLeft, queue, stats_skipped>>
             ELSE \E g \in Gauges :
                    CASE g = "missing" ->
                           /\ prodPc' = "exited"
                           /\ ChildRaises("prod")
                           /\ UNCHANGED <<prodItem, replayLeft, queue, stats_skipped>>
                      [] g = "low" ->
                           /\ prodPc' = AtAwait("ratewait")
                           /\ QuietProd
                           /\ UNCHANGED <<prodItem, replayLeft, queue, stats_skipped>>
                      [] g = "ok" ->
                           /\ AfterRateLimit(listPos + 1)
                           /\ QuietProd
                           /\ UNCHANGED replayLeft
    /\ UNCHANGED <<diskVars, processed_prs, pending_prs, prs, failed_prs,
                   stop_requested, state, stats_processed, runPc, runs,
                   lastProcessed>>

\* _wait_for_rate_limit: the sleep ends and the loop condition is read again
ProducerRateWake ==
    /\ Sync
    /\ prodPc = "ratewait"
    /\ \E g \in {"ok", "low"} :
         IF g = "low" /\ ~stop_requested
         THEN /\ prodPc' = AtAwait("ratewait")
              /\ UNCHANGED <<prodItem, queue, stats_skipped>>
         ELSE AfterRateLimit(listPos)
    /\ QuietProd
    /\ UNCHANGED <<diskVars, processed_prs, pending_prs, prs, failed_prs,
                   stop_requested, state, stats_processed, runPc, runs,
                   listPos, replayLeft, lastProcessed>>

\* a send that was blocked on a full channel completes
ProducerSendDone ==
    /\ Sync
    /\ prodPc \in {"send_list", "send_replay"}
    /\ Len(queue) < QueueCap
    /\ queue' = Append(queue, prodItem)
    /\ prodItem' = 0
    /\ prodPc' = IF prodPc = "send_list" THEN "list" ELSE "replay"
    /\ UNCHANGED <<diskVars, memVars, runPc, runs, nurseryVars, listPos,
                   replayLeft, workerVars, ckptVars, dashPc, sigPc>>

\* a replay that would send every failed unit again
ReplayAlways(u, processed) == TRUE

\* "if pr_num not in self.processed_prs" of the replay loop
ReplayWanted(u, processed) == u \notin processed

\* one iteration of the replay of failed units, lines 626-636
ProducerReplay ==
    /\ Sync
    /\ prodPc = "replay"
    /\ IF replayLeft = {} \/ stop_requested
       THEN /\ prodPc' = "exited"
            /\ UNCHANGED <<replayLeft, queue, prodItem>>
       ELSE \E u \in replayLeft :
              /\ replayLeft' = replayLeft \ {u}
              /\ IF ~ReplayWanted(u, processed_prs)
                 THEN /\ prodPc' = AtAwait("replay")
                      /\ UNCHANGED <<queue, prodItem>>
                 ELSE \/ \* client.get raises: logged, the unit is not queued
                         /\ prodPc' = AtAwait("replay")
                         /\ UNCHANGED <<queue, prodItem>>
                      \/ Send(u, "replay", "send_replay")
    /\ QuietProd
    /\ UNCHANGED <<diskVars, memVars, runPc, runs, listPos, lastProcessed>>

(* ---- _pr_worker and _process_single_pr ---- *)

\* "async for pr_data in receive_channel": an item arrives, or the channel is
\* closed and empty (the producer has left "async with send_channel")
WorkerReceive(w) ==
    /\ Sync
    /\ wPc[w] = "recv"
    /\ \/ /\ queue # <<>>
          /\ queue' = Tail(queue)
          /\ IF stop_requested \/ cancelled
             THEN \* break (and _process_single_pr would return at once), or
                  \* Cancelled at the first await of the extraction
                  /\ wPc' = [wPc EXCEPT ![w] = "exited"]
                  /\ UNCHANGED cur
             ELSE /\ wPc' = [wPc EXCEPT ![w] = "extract"]
                  /\ cur' = [cur EXCEPT ![w] = Head(queue)]
       \/ /\ queue = <<>>
          /\ prodPc = "exited"
          /\ wPc' = [wPc EXCEPT ![w] = "exited"]
          /\ UNCHANGED <<queue, cur>>
    /\ UNCHANGED <<diskVars, memVars, runPc, runs, nurseryVars, prodVars,
                   ckptVars, dashPc, sigPc>>

\* extract_pr_details returns and merge_details runs (sub-fetch errors are
\* kept in details.errors and change nothing here)
WorkerMerge(w) ==
    /\ Sync
    /\ wPc[w] = "extract"
    /\ prs' = Append(prs, cur[w])
    /\ pending_prs' = Append(pending_prs, cur[w])
    /\ stats_processed' =
           MergedCount(processed_prs, Append(pending_prs, cur[w]), stats_skipped)
    /\ wPc' = [wPc EXCEPT ![w] = AtAwait("recv")]
    /\ cur' = [cur EXCEPT ![w] = 0]
    /\ UNCHANGED <<diskVars, processed_prs, failed_prs, stop_requested, state,
                   stats_skipped, runPc, runs, nurseryVars, queue, prodVars,
                   ckptVars, dashPc, sigPc>>

\* extract_pr_details raises an Exception: the unit gets an ErrorRecord
WorkerFail(w) ==
    /\ Sync
    /\ wPc[w] = "extract"
    /\ failed_prs' = failed_prs \cup {cur[w]}
    /\ wPc' = [wPc EXCEPT ![w] = AtAwait("recv")]
    /\ cur' = [cur EXCEPT ![w] = 0]
    /\ UNCHANGED <<diskVars, processed_prs, pending_prs, prs, stop_requested,
                   state, stats_processed, stats_skipped, runPc, runs,
                   nurseryVars, queue, prodVars, ckptVars, dashPc, sigPc>>

(* ---- save_parquet_incremental and save_checkpoint ---- *)

\* save_parquet_incremental: upsert the buffers, then mark the pending units
\* processed and clear the buffers
SaveParquet ==
    /\ store' = UpsertUnits(store, prs)
    /\ processed_prs' = processed_prs \cup SeqSet(pending_prs)
    /\ pending_prs' = <<>>
    /\ prs' = <<>>

\* save_checkpoint: the temporary file is renamed over the checkpoint
SaveCheckpoint ==
    /\ ckptProcessed' = processed_prs
    /\ ckptFailed' = failed_prs

(* ---- _checkpoint_task ---- *)

\* the sleep ends; with progress since the last flush save_parquet_incremental
\* runs (or raises an I/O error)
CheckpointWake ==
    /\ Sync
    /\ ckptPc = "sleep"
    /\ IF stats_processed > lastProcessed
       THEN \/ /\ SaveParquet
               /\ ckptPc' = "saving"
               /\ QuietCkpt
            \/ /\ ckptPc' = "exited"
               /\ ChildRaises("ckpt")
               /\ UNCHANGED <<store, processed_prs, pending_prs, prs>>
       ELSE /\ ckptPc' = AtAwait("probe")
            /\ QuietCkpt
            /\ UNCHANGED <<store, processed_prs, pending_prs, prs>>
    /\ UNCHANGED <<ckptProcessed, ckptFailed, failed_prs, stop_requested,
                   state, stats_processed, stats_skipped, runPc, runs, queue,
                   listPos, replayLeft, lastProcessed>>

\* save_checkpoint right after save_parquet_incremental, in the same
\* synchronous block; last_processed = current_processed
CheckpointSave ==
    /\ runPc = "running"
    /\ ckptPc = "saving"
    /\ \/ /\ SaveCheckpoint
          /\ lastProcessed' = stats_processed
          /\ ckptPc' = AtAwait("probe")
          /\ QuietCkpt
       \/ /\ ckptPc' = "exited"
          /\ ChildRaises("ckpt")
          /\ UNCHANGED <<ckptProcessed, ckptFailed, lastProcessed>>
    /\ UNCHANGED <<store, memVars, runPc, runs, queue, listPos, replayLeft>>

\* get_rate_limit returns or raises an Exception (ignored); then the loop
\* condition "while not self._stop_requested" is read
CheckpointProbe ==
    /\ Sync
    /\ ckptPc = "probe"
    /\ ckptPc' = IF stop_requested THEN "exited" ELSE AtAwait("sleep")
    /\ UNCHANGED <<diskVars, memVars, runPc, runs, nurseryVars, queue, prodVars,
                   workerVars, lastProcessed, dashPc, sigPc>>

(* ---- _dashboard_task ---- *)

\* the sleep ends, the dashboard is redrawn and the loop condition is read
DashboardWake ==
    /\ Sync
    /\ dashPc = "sleep"
    /\ dashPc' = IF stop_requested THEN "exited" ELSE AtAwait("sleep")
    /\ UNCHANGED <<diskVars, memVars, runPc, runs, nurseryVars, queue, prodVars,
                   workerVars, ckptVars, sigPc>>

(* ---- the end of run() ---- *)

AllExited ==
    /\ prodPc = "exited"
    /\ \A w \in Workers : wPc[w] = "exited"
    /\ ckptPc = "exited"
    /\ dashPc = "exited"
    /\ sigPc = "exited"

\* what leaves the "try: async with trio.open_nursery()" block once every
\* child has exited: the exception of a child (only trio.Cancelled is
\* caught, and there is no finally), or control, which goes on to line 740
AfterNursery == IF childError THEN "raised" ELSE "final_store"

NurseryExit ==
    /\ runPc = "running"
    /\ AllExited
    /\ runPc' = AfterNursery
    /\ state' = IF AfterNursery = "raised" THEN state
                ELSE IF stop_requested THEN "paused" ELSE "completed"
    /\ UNCHANGED <<diskVars, processed_prs, pending_prs, prs, failed_prs,
                   stop_requested, stats_processed, stats_skipped, runs,
                   nurseryVars, queue, prodVars, workerVars, ckptVars, dashPc,
                   sigPc>>

\* the final save_parquet_incremental (or its I/O error, which run() raises)
FinalStore ==
    /\ runPc = "final_store"
    /\ \/ /\ SaveParquet
          /\ runPc' = "final_ckpt"
       \/ /\ runPc' = "failed_save"
          /\ UNCHANGED <<store, processed_prs, pending_prs, prs>>
    /\ UNCHANGED <<ckptProcessed, ckptFailed, failed_prs, stop_requested,
                   state, stats_processed, stats_skipped, runs, nurseryVars,
                   queue, prodVars, workerVars, ckptVars, dashPc, sigPc>>

\* the final save_checkpoint
FinalCheckpoint ==
    /\ runPc = "final_ckpt"
    /\ \/ /\ SaveCheckpoint
          /\ runPc' = "final_log"
       \/ /\ runPc' = "failed_save"
          /\ UNCHANGED <<ckptProcessed, ckptFailed>>
    /\ UNCHANGED <<store, memVars, runs, nurseryVars, queue, prodVars,
                   workerVars, ckptVars, dashPc, sigPc>>

\* save_error_log (its file is read by nothing in the pipeline); run() returns
FinalErrorLog ==
    /\ runPc = "final_log"
    /\ runPc' = "returned"
    /\ UNCHANGED <<diskVars, memVars, runs, nurseryVars, queue, prodVars,
                   workerVars, ckptVars, dashPc, sigPc>>

\* the process is killed: the memory is lost, the disk stays as it is
Crash ==
    /\ runPc \in {"running", "final_store", "final_ckpt", "final_log"}
    /\ runPc' = "crashed"
    /\ processed_prs' = {}
    /\ failed_prs' = {}
    /\ pending_prs' = <<>>
    /\ prs' = <<>>
    /\ stop_requested' = FALSE
    /\ state' = "running"
    /\ stats_processed' = 0
    /\ stats_skipped' = 0
    /\ cancelled' = FALSE
    /\ childError' = FALSE
    /\ queue' = <<>>
    /\ prodPc' = "exited"
    /\ listPos' = 0
    /\ prodItem' = 0
    /\ replayLeft' = {}
    /\ wPc' = [w \in Workers |-> "exited"]
    /\ cur' = [w \in Workers |-> 0]
    /\ ckptPc' = "exited"
    /\ lastProcessed' = 0
    /\ dashPc' = "exited"
    /\ sigPc' = "exited"
    /\ UNCHANGED <<diskVars, runs>>

(* ---- the orchestrator's specification ---- *)

OrchInit ==
    /\ store = [u \in Units |-> 0]
    /\ ckptProcessed = {}
    /\ ckptFailed = {}
    /\ processed_prs = {}
    /\ failed_prs = {}
    /\ pending_prs = <<>>
    /\ prs = <<>>
    /\ stop_requested = FALSE
    /\ state = "running"
    /\ stats_processed = 0
    /\ stats_skipped = 0
    /\ runPc = "idle"
    /\ runs = 0
    /\ cancelled = FALSE
    /\ childError = FALSE
    /\ queue = <<>>
    /\ prodPc = "exited"
    /\ listPos = 0
    /\ prodItem = 0
    /\ replayLeft = {}
    /\ wPc = [w \in Workers |-> "exited"]
    /\ cur = [w \in Workers |-> 0]
    /\ ckptPc = "exited"
    /\ lastProcessed = 0
    /\ dashPc = "exited"
    /\ sigPc = "exited"

\* the steps the tasks and run() take by themselves
ProducerStep ==
    ProducerList \/ ProducerRateWake \/ ProducerSendDone \/ ProducerReplay
WorkerStep(w) == WorkerReceive(w) \/ WorkerMerge(w) \/ WorkerFail(w)
CheckpointStep == CheckpointWake \/ CheckpointSave \/ CheckpointProbe
RunStep == NurseryExit \/ FinalStore \/ FinalCheckpoint \/ FinalErrorLog
TaskStep ==
    \/ ProducerStep
    \/ \E w \in Workers : WorkerStep(w)
    \/ CheckpointStep
    \/ DashboardWake
    \/ RunStep

\* one run of the process that nothing kills
FirstRun == runs = 0 /\ StartRun
OneRunNext ==
    \/ FirstRun
    \/ Signal
    \/ TaskStep

OrchNext ==
    \/ StartRun
    \/ Signal
    \/ Crash
    \/ TaskStep

(***************************************************************************)
(* The token cache: GitHubAppAuth.get_token                                *)
(***************************************************************************)

\* the condition of both checks of get_token; _token and _token_expires_at
\* are None together (both are set by the one assignment of line 106)
TokenValid(tok, exp, t) == tok # 0 /\ exp > t + RefreshMargin

\* a get_token that would go to the exchange without looking at the cache again
RecheckSkipped(tok, exp, t) == FALSE

\* the re-check after the lock has been acquired
RecheckValid(tok, exp, t) == TokenValid(tok, exp, t)

\* "async with self._refresh_lock" is left by caller c, which goes to newPc:
\* trio.Lock hands the lock to the task that has waited longest
ReleaseLock(c, newPc) ==
    IF lockWaiters = <<>>
    THEN /\ lockHolder' = 0
         /\ lockWaiters' = lockWaiters
         /\ aPc' = [aPc EXCEPT ![c] = newPc]
    ELSE /\ lockHolder' = Head(lockWaiters)
         /\ lockWaiters' = Tail(lockWaiters)
         /\ aPc' = [aPc EXCEPT ![c] = newPc, ![Head(lockWaiters)] = "locked"]

\* get_token up to its first await: the check without the lock, then
\* lock.acquire()
GetToken(c) ==
    /\ aPc[c] = "idle"
    /\ IF TokenValid(token, token_expires_at, authNow)
       THEN /\ aPc' = [aPc EXCEPT ![c] = "returned"]
            /\ aResult' = [aResult EXCEPT ![c] = token]
            /\ UNCHANGED <<lockHolder, lockWaiters>>
       ELSE IF lockHolder = 0
            THEN /\ lockHolder' = c
                 /\ aPc' = [aPc EXCEPT ![c] = "locked"]
                 /\ UNCHANGED <<lockWaiters, aResult>>
            ELSE /\ lockWaiters' = Append(lockWaiters, c)
                 /\ aPc' = [aPc EXCEPT ![c] = "wait_lock"]
                 /\ UNCHANGED <<lockHolder, aResult>>
    /\ UNCHANGED <<token, token_expires_at, authNow, exchanges, failedExchange,
                   initValid>>

\* the lock is held: re-check, then return the cached token or start the
\* exchange
Recheck(c) ==
    /\ aPc[c] = "locked"
    /\ lockHolder = c
    /\ IF RecheckValid(token, token_expires_at, authNow)
       THEN /\ ReleaseLock(c, "returned")
            /\ aResult' = [aResult EXCEPT ![c] = token]
            /\ UNCHANGED exchanges
       ELSE /\ aPc' = [aPc EXCEPT ![c] = "fetching"]
            /\ exchanges' = exchanges + 1
            /\ UNCHANGED <<lockHolder, lockWaiters, aResult>>
    /\ UNCHANGED <<token, token_expires_at, authNow, failedExchange, initValid>>

\* _fetch_installation_token returns: the cache is replaced
FetchOk(c) ==
    /\ aPc[c] = "fetching"
    /\ token' = exchanges + 1
    /\ token_expires_at' = authNow + TokenLifetime
    /\ aResult' = [aResult EXCEPT ![c] = exchanges + 1]
    /\ ReleaseLock(c, "returned")
    /\ UNCHANGED <<authNow, exchanges, failedExchange, initValid>>

\* a get_token that would fall back to the cached token when the exchange fails
ReturnCachedOnError(c) ==
    /\ ReleaseLock(c, "returned")
    /\ aResult' = [aResult EXCEPT ![c] = token]
    /\ UNCHANGED <<token, token_expires_at>>

\* what get_token does when _fetch_installation_token raises: the assignment
\* of line 106 does not happen, the lock is released, the exception leaves
OnExchangeError(c) ==
    /\ ReleaseLock(c, "raised")
    /\ UNCHANGED <<token, token_expires_at, aResult>>

\* the exchange HTTP call fails (raise_for_status, or a transport error)
FetchFail(c) ==
    /\ aPc[c] = "fetching"
    /\ failedExchange' = failedExchange \cup {c}
    /\ OnExchangeError(c)
    /\ UNCHANGED <<authNow, exchanges, initValid>>

\* a minute passes
AuthTick ==
    /\ authNow < MaxClock
    /\ authNow' = authNow + 1
    /\ UNCHANGED <<token, token_expires_at, lockHolder, lockWaiters, aPc,
                   aResult, exchanges, failedExchange, initValid>>

\* the cache before the callers arrive: empty, a token 4 minutes from expiry,
\* or a token that is valid for two more minutes
AuthInit ==
    /\ authNow = 0
    /\ \/ token = 0 /\ token_expires_at = 0
       \/ token = 1 /\ token_expires_at = RefreshMargin - 1
       \/ token = 1 /\ token_expires_at = RefreshMargin + 2
    /\ initValid = TokenValid(token, token_expires_at, authNow)
    /\ lockHolder = 0
    /\ lockWaiters = <<>>
    /\ aPc = [c \in Callers |-> "idle"]
    /\ aResult = [c \in Callers |-> 0]
    /\ exchanges = 0
    /\ failedExchange = {}

\* the token cache with nobody calling it
AuthIdle ==
    /\ authNow = 0
    /\ token = 0
    /\ token_expires_at = 0
    /\ initValid = FALSE
    /\ lockHolder = 0
    /\ lockWaiters = <<>>
    /\ aPc = [c \in Callers |-> "returned"]
    /\ aResult = [c \in Callers |-> 0]
    /\ exchanges = 0
    /\ failedExchange = {}

AuthNext ==
    \/ \E c \in Callers : GetToken(c)
    \/ \E c \in Callers : Recheck(c)
    \/ \E c \in Callers : FetchOk(c)
    \/ \E c \in Callers : FetchFail(c)
    \/ AuthTick

(***************************************************************************)
(* The gateway: GitHubClient._request and _handle_rate_limit               *)
(***************************************************************************)

Max(a, b) == IF a >= b THEN a ELSE b

RECURSIVE Pow2(_)
Pow2(n) == IF n = 0 THEN 1 ELSE 2 * Pow2(n - 1)

\* a response: its status and the headers _handle_rate_limit reads
\* (remaining: X-RateLimit-Remaining, 1 when absent; reset: X-RateLimit-Reset,
\* 0 when absent; retry_after: Retry-After, when has_retry_after)
Response(st, rem, rst, hasRA, ra) ==
    [status |-> st, remaining |-> rem, reset |-> rst,
     has_retry_after |-> hasRA, retry_after |-> ra]

NoResponse == Response(0, 1, 0, FALSE, 0)

\* the responses the server may give to a request received at time t
Responses(t) ==
    { Response(200, 100, 0, FALSE, 0),
      Response(403, 0, t + 2, FALSE, 0),
      Response(403, 0, t + PrimaryMinWait + 1, FALSE, 0),
      Response(403, 0, t + RefreshMargin * 60, FALSE, 0),
      Response(403, 100, 0, TRUE, 2),
      Response(403, 100, 0, FALSE, 0),
      Response(429, 1, 0, TRUE, 3),
      Response(429, 1, 0, FALSE, 0),
      Response(502, 1, 0, FALSE, 0),
      Response(404, 100, 0, FALSE, 0) }

\* _handle_rate_limit: whether the request is to be retried, after which
\* sleep, and which of the two limits it was
HandleRateLimit(r, t) ==
    IF r.status = 403 /\ r.remaining = 0
    THEN [retry |-> TRUE, sleep |-> Max(r.reset - t, PrimaryMinWait) + 1,
          cause |-> "primary"]
    ELSE IF r.status = 429
         THEN [retry |-> TRUE,
               sleep |-> IF r.has_retry_after THEN r.retry_after
                         ELSE DefaultRetryAfter,
               cause |-> "secondary"]
         ELSE [retry |-> FALSE, sleep |-> 0, cause |-> "none"]

\* the expiry of what _get_auth_header returns at time t: a PAT, or an
\* installation token that get_token found or made valid for more than the
\* refresh margin (the one nearest to its expiry)
HeaderTokens(t) == {0, t + RefreshMargin * 60 + 1}

\* _request is called: the header is built, the first attempt of the loop is
\* sent
GwStart ==
    /\ gPc \in {"idle", "returned", "raised"}
    /\ calls < MaxCalls
    /\ calls' = calls + 1
    /\ \E e \in HeaderTokens(gNow) : authExpiresAt' = e
    /\ UNCHANGED rlGauge
    /\ attempt' = 0
    /\ rlCount' = 0
    /\ otherCount' = 0
    /\ raiseCause' = "none"
    /\ sleepCause' = "none"
    /\ resp' = NoResponse
    /\ gPc' = "await_resp"
    /\ UNCHANGED <<gNow, respAt, wakeAt, request_count>>

\* the response of an attempt arrives and the body of the loop runs up to its
\* sleep, its return or its raise
GwRespond ==
    /\ gPc = "await_resp"
    /\ \E latency \in {0, 1} : \E r \in Responses(gNow + latency) :
         LET t == gNow + latency
             rl == HandleRateLimit(r, t)
         IN /\ gNow' = t
            /\ resp' = r
            /\ respAt' = t
            /\ request_count' = request_count + 1
            /\ IF rl.retry
               THEN /\ gPc' = "sleeping"
                    /\ wakeAt' = t + rl.sleep
                    /\ sleepCause' = rl.cause
                    /\ rlCount' = rlCount + 1
                    /\ UNCHANGED <<otherCount, raiseCause>>
               ELSE IF r.status >= 500
                    THEN /\ gPc' = "sleeping"
                         /\ wakeAt' = t + Pow2(attempt)
                         /\ sleepCause' = "server"
                         /\ otherCount' = otherCount + 1
                         /\ UNCHANGED <<rlCount, raiseCause>>
                    ELSE IF r.status >= 400
                         THEN \* response.raise_for_status()
                              /\ gPc' = "raised"
                              /\ raiseCause' = "status"
                              /\ otherCount' = otherCount + 1
                              /\ UNCHANGED <<wakeAt, sleepCause, rlCount>>
                         ELSE /\ gPc' = "returned"
                              /\ otherCount' = otherCount + 1
                              /\ UNCHANGED <<wakeAt, sleepCause, rlCount,
                                             raiseCause>>
    /\ UNCHANGED <<attempt, calls, authExpiresAt, rlGauge>>

\* self.client.request raises a transport error: nothing in _request catches it
GwTransportError ==
    /\ gPc = "await_resp"
    /\ gPc' = "raised"
    /\ raiseCause' = "transport"
    /\ otherCount' = otherCount + 1
    /\ UNCHANGED <<attempt, gNow, resp, respAt, wakeAt, sleepCause,
                   request_count, calls, rlCount, authExpiresAt, rlGauge>>

\* a loop that would go on for ever
RetryWithoutCeiling(n) == "await_resp"

\* after the sleep "continue" takes the next value of range(max_retries),
\* or the loop is over and "Max retries exceeded" is raised
AfterSleep(n) == IF n < MaxRetries THEN "await_resp" ELSE "raised"

\* trio.sleep returns, not before its deadline
GwWake ==
    /\ gPc = "sleeping"
    /\ \E late \in {0, 1} : gNow' = Max(gNow, wakeAt) + late
    /\ attempt' = attempt + 1
    /\ gPc' = AfterSleep(attempt + 1)
    /\ raiseCause' = IF AfterSleep(attempt + 1) = "raised" THEN "max_retries"
                     ELSE raiseCause
    /\ UNCHANGED <<resp, respAt, wakeAt, sleepCause, request_count, calls,
                   rlCount, otherCount, authExpiresAt, rlGauge>>

\* GitHubClient.__init__ sets app_auth, pat_token, _auth_type, client and
\* _request_count, and no rate_limit_remaining
NoGauge == [defined |-> FALSE, remaining |-> 0]

GwInit ==
    /\ gPc = "idle"
    /\ authExpiresAt = 0
    /\ rlGauge = NoGauge
    /\ attempt = 0
    /\ gNow = 0
    /\ resp = NoResponse
    /\ respAt = 0
    /\ wakeAt = 0
    /\ sleepCause = "none"
    /\ request_count = 0
    /\ calls = 0
    /\ rlCount = 0
    /\ otherCount = 0
    /\ raiseCause = "none"

GwNext ==
    \/ GwStart
    \/ GwRespond
    \/ GwTransportError
    \/ GwWake

(***************************************************************************)
(* Pagination: GitHubClient.paginate                                       *)
(***************************************************************************)

Min(a, b) == IF a <= b THEN a ELSE b

\* response.json() of page k of an endpoint that holds the items 1..n and
\* serves p of them per page
PageOf(n, p, k) ==
    [i \in 1..Max(0, Min(k * p, n) - (k - 1) * p) |-> (k - 1) * p + i]

\* a loop that would stop at an empty page only
NeverShort(items, p) == FALSE

\* "if len(items) < PER_PAGE: break"
ShortPage(items, p) == Len(items) < p

\* one iteration of "while True": the page is requested, its items are
\* yielded, and the loop is left or goes on to the next page
PgFetch ==
    /\ pgPc = "running"
    /\ pageRequests' = pageRequests + 1
    /\ LET items == PageOf(totalItems, per_page, page)
       IN IF items = <<>>
          THEN /\ pgPc' = "done"
               /\ UNCHANGED <<yielded, page>>
          ELSE /\ yielded' = yielded \o items
               /\ IF ShortPage(items, per_page)
                     \/ (max_pages # 0 /\ page >= max_pages)
                  THEN /\ pgPc' = "done"
                       /\ page' = page
                  ELSE /\ pgPc' = "running"
                       /\ page' = page + 1
    /\ UNCHANGED <<totalItems, per_page, max_pages>>

\* _request raises: the exception leaves the generator
PgRequestRaises ==
    /\ pgPc = "running"
    /\ pgPc' = "raised"
    /\ pageRequests' = pageRequests + 1
    /\ UNCHANGED <<totalItems, per_page, max_pages, page, yielded>>

\* paginate is called on an endpoint with some items, page size and max_pages
PgInit ==
    /\ totalItems \in 0..MaxItems
    /\ per_page \in 1..MaxPerPage
    /\ max_pages \in 0..MaxPagesArg
    /\ page = 1
    /\ yielded = <<>>
    /\ pageRequests = 0
    /\ pgPc = "running"

\* nobody paginates
PgIdle ==
    /\ totalItems = 0
    /\ per_page = 1
    /\ max_pages = 0
    /\ page = 1
    /\ yielded = <<>>
    /\ pageRequests = 0
    /\ pgPc = "done"

PgNext ==
    \/ PgFetch
    \/ PgRequestRaises

(***************************************************************************)
(* The records: _process_single_pr, merge_details,                         *)
(* save_parquet_incremental, save_checkpoint and load_checkpoint of one    *)
(* DataExtractor, run one after the other. The orchestrator above keeps    *)
(* the unit numbers only; here are the records behind them.                *)
(***************************************************************************)

\* what makes a sub-fetch raise: the request itself, or the token exchange
\* under _get_auth_header
ErrorCauses == {"request", "token"}

NoDetails == [unit |-> 0, reviews |-> {}, errors |-> {}]
NoError == [unit |-> 0, kind |-> "none"]
NoRows == [r \in Rows |-> 0]
NoUnits == [u \in Units |-> 0]

\* the key column "pr_number" of a row of prs.parquet and of a child table
UnitOfUnit == [u \in Units |-> u]
UnitOfRow == [r \in Rows |-> r[1]]

\* updated_pr_numbers = {pr.pr_number for pr in self.prs}
UpdatedUnits(bufPrs) == {u \in Units : bufPrs[u] > 0}

\* upsert_table(items, filename, "pr_number"): nothing is done for an empty
\* list of items; otherwise the existing rows of the updated units are
\* dropped and the items are appended
UpsertTable(existing, items, updated, unitOf) ==
    IF \A k \in DOMAIN items : items[k] = 0
    THEN existing
    ELSE [k \in DOMAIN existing |->
            (IF unitOf[k] \in updated THEN 0 ELSE existing[k]) + items[k]]

\* ErrorRecord(...).retries of a unit that fails again
RetriesReset(previous) == 1

\* retries = self.failed_prs.get(pr_number, ErrorRecord(0, "", "", "")).retries + 1
RetriesAfterFailure(previous) == previous + 1

\* list(a_set): its elements in some order
RECURSIVE SetToSeq(_)
SetToSeq(S) ==
    IF S = {} THEN <<>>
    ELSE LET x == CHOOSE y \in S : TRUE
         IN <<x>> \o SetToSeq(S \ {x})

\* the "failed_prs" list save_checkpoint writes: one dict per ErrorRecord
FailedList(failed) ==
    LET ks == SetToSeq({u \in Units : failed[u] > 0})
    IN [i \in 1..Len(ks) |-> [pr_number |-> ks[i], retries |-> failed[ks[i]]]]

\* the JSON document save_checkpoint dumps
CheckpointDoc(processed, failed) ==
    [kind |-> "full", processed_prs |-> SetToSeq(processed),
     failed_prs |-> FailedList(failed)]

\* a path with no file, and a file whose write was cut short
NoFile == [kind |-> "none", processed_prs |-> <<>>, failed_prs |-> <<>>]
Truncated == [kind |-> "partial", processed_prs |-> <<>>, failed_prs |-> <<>>]

\* load_checkpoint: "for error_data in checkpoint.get("failed_prs", [])"
RECURSIVE LoadFailed(_, _)
LoadFailed(list, acc) ==
    IF list = <<>> THEN acc
    ELSE LoadFailed(Tail(list),
                    [acc EXCEPT ![Head(list).pr_number] = Head(list).retries])

\* what load_checkpoint makes of a file: nothing when the file is missing or
\* json.load fails on it
LoadedProcessed(doc) == IF doc.kind = "full" THEN SeqSet(doc.processed_prs) ELSE {}
LoadedFailed(doc) ==
    IF doc.kind = "full" THEN LoadFailed(doc.failed_prs, NoUnits) ELSE NoUnits

\* a save that would write the checkpoint file in place
WriteInPlace == "checkpoint"

\* temp_file = f"{CHECKPOINT_FILE}.tmp": where save_checkpoint writes
WriteTarget == "temp"

\* a merge that would keep no trace of the errors of the sub-fetches
ErrorsDropped(d, previous) == previous

\* "if details.errors: self.stats.last_error = ..." of merge_details
ErrorAfterMerge(d, previous) ==
    IF d.errors # {} THEN [unit |-> d.unit, kind |-> "partial"] ELSE previous

\* extract_pr_details returns the PRDetails of unit u: the rows its
\* sub-fetches got and what made some of them raise (details.errors)
RecExtract(u) ==
    /\ recPc = "idle"
    /\ details = NoDetails
    /\ processings < MaxProcessings
    /\ processings' = processings + 1
    /\ \E revs \in SUBSET RowIds : \E errs \in SUBSET ErrorCauses :
         details' = [unit |-> u, reviews |-> revs, errors |-> errs]
    /\ UNCHANGED <<buf_prs, buf_reviews, rec_pending, rec_processed, rec_failed,
                   stats_failed, last_error, tbl_prs, tbl_reviews, files,
                   refreshed, recPc, kills>>

\* a merge that would buffer the records and leave the pending list alone
PendingUnchanged(pending, u) == pending

\* self.pending_prs.append(pr_number)
PendingAfterMerge(pending, u) == Append(pending, u)

\* extract_pr_details of unit u is cut short by trio.Cancelled at one of its
\* awaits: the PRDetails it was filling is dropped with the worker
RecCancelled(u) ==
    /\ recPc = "idle"
    /\ details = NoDetails
    /\ processings < MaxProcessings
    /\ processings' = processings + 1
    /\ UNCHANGED <<recMem, tbl_prs, tbl_reviews, files, refreshed, recPc, kills>>

\* merge_details(details, pr_number)
RecMerge ==
    /\ recPc = "idle"
    /\ details # NoDetails
    /\ buf_prs' = [buf_prs EXCEPT ![details.unit] = @ + 1]
    /\ buf_reviews' = [r \in Rows |->
                         IF r[1] = details.unit /\ r[2] \in details.reviews
                         THEN buf_reviews[r] + 1 ELSE buf_reviews[r]]
    /\ rec_pending' = PendingAfterMerge(rec_pending, details.unit)
    /\ last_error' = ErrorAfterMerge(details, last_error)
    /\ details' = NoDetails
    /\ UNCHANGED <<rec_processed, rec_failed, stats_failed, tbl_prs,
                   tbl_reviews, files, refreshed, recPc, processings, kills>>

\* _process_single_pr for unit u when extract_pr_details raises an Exception
RecProcessFails(u) ==
    /\ recPc = "idle"
    /\ details = NoDetails
    /\ processings < MaxProcessings
    /\ processings' = processings + 1
    /\ stats_failed' = stats_failed + 1
    /\ rec_failed' = [rec_failed EXCEPT ![u] = RetriesAfterFailure(@)]
    /\ last_error' = [unit |-> u, kind |-> "total"]
    /\ UNCHANGED <<details, buf_prs, buf_reviews, rec_pending, rec_processed,
                   tbl_prs, tbl_reviews, files, refreshed, recPc, kills>>

\* save_parquet_incremental, which save_checkpoint follows at each of its
\* call sites
RecFlush ==
    /\ recPc = "idle"
    /\ details = NoDetails
    /\ tbl_prs' = UpsertTable(tbl_prs, buf_prs, UpdatedUnits(buf_prs), UnitOfUnit)
    /\ tbl_reviews' = UpsertTable(tbl_reviews, buf_reviews,
                                  UpdatedUnits(buf_prs), UnitOfRow)
    /\ rec_processed' = rec_processed \cup SeqSet(rec_pending)
    /\ rec_pending' = <<>>
    /\ buf_prs' = NoUnits
    /\ buf_reviews' = NoRows
    /\ recPc' = "open"
    /\ UNCHANGED <<details, rec_failed, stats_failed, last_error, files,
                   refreshed, processings, kills>>

\* save_checkpoint: open(temp_file, "w") creates or truncates the file
RecSaveOpen ==
    /\ recPc = "open"
    /\ files' = [files EXCEPT ![WriteTarget] = Truncated]
    /\ recPc' = "dump"
    /\ UNCHANGED <<recMem, tbl_prs, tbl_reviews, refreshed, processings, kills>>

\* save_checkpoint: json.dump and the close of the file
RecSaveDump ==
    /\ recPc = "dump"
    /\ files' = [files EXCEPT ![WriteTarget] =
                                  CheckpointDoc(rec_processed, rec_failed)]
    /\ recPc' = "rename"
    /\ UNCHANGED <<recMem, tbl_prs, tbl_reviews, refreshed, processings, kills>>

\* save_checkpoint: os.replace(temp_file, CHECKPOINT_FILE), atomic; it raises
\* when there is no temporary file
RecSaveRename ==
    /\ recPc = "rename"
    /\ files' = IF files["temp"] = NoFile THEN files
                ELSE [temp |-> NoFile, checkpoint |-> files["temp"]]
    /\ recPc' = "idle"
    /\ UNCHANGED <<recMem, tbl_prs, tbl_reviews, refreshed, processings, kills>>

\* the process is killed: its memory is gone, the files stay as they are
RecKill ==
    /\ recPc # "dead"
    /\ kills < MaxKills
    /\ kills' = kills + 1
    /\ recPc' = "dead"
    /\ details' = NoDetails
    /\ buf_prs' = NoUnits
    /\ buf_reviews' = NoRows
    /\ rec_pending' = <<>>
    /\ rec_processed' = {}
    /\ rec_failed' = NoUnits
    /\ stats_failed' = 0
    /\ last_error' = NoError
    /\ UNCHANGED <<tbl_prs, tbl_reviews, files, refreshed, processings>>

\* a new process: DataExtractor.__init__ and load_checkpoint(refresh_days)
RecLoad ==
    /\ recPc = "dead"
    /\ \E recent \in SUBSET {u \in Units : tbl_prs[u] > 0} :
         /\ refreshed' = recent
         /\ rec_processed' = LoadedProcessed(files["checkpoint"]) \ recent
    /\ rec_failed' = LoadedFailed(files["checkpoint"])
    /\ recPc' = "idle"
    /\ UNCHANGED <<details, buf_prs, buf_reviews, rec_pending, stats_failed,
                   last_error, tbl_prs, tbl_reviews, files, processings, kills>>

RecInit ==
    /\ details = NoDetails
    /\ buf_prs = NoUnits
    /\ buf_reviews = NoRows
    /\ rec_pending = <<>>
    /\ rec_processed = {}
    /\ rec_failed = NoUnits
    /\ stats_failed = 0
    /\ last_error = NoError
    /\ tbl_prs = NoUnits
    /\ tbl_reviews = NoRows
    /\ files = [temp |-> NoFile, checkpoint |-> NoFile]
    /\ refreshed = {}
    /\ recPc = "idle"
    /\ processings = 0
    /\ kills = 0

\* the records with nothing happening to them
RecIdle == RecInit

RecNext ==
    \/ \E u \in Units : RecExtract(u)
    \/ RecMerge
    \/ \E u \in Units : RecProcessFails(u)
    \/ \E u \in Units : RecCancelled(u)
    \/ RecFlush
    \/ RecSaveOpen
    \/ RecSaveDump
    \/ RecSaveRename
    \/ RecKill
    \/ RecLoad

(***************************************************************************)
(* One run counted: the producer's two loops with the limit, the merges    *)
(* and the ticks of the checkpoint task                                    *)
(***************************************************************************)

\* "if limit and queued >= limit: break"
LimitReached(lim, n) == lim # 0 /\ n >= lim

\* the next unit of the listing, lines 602-623, or the end of the listing and
\* list(self.failed_prs.keys())
LstList ==
    /\ lstPc = "list"
    /\ IF lstPos = MaxListed
       THEN /\ lstPc' = "replay"
            /\ lstReplay' = lstFailed
            /\ UNCHANGED <<lstPos, lstSkipped, lstChan, queued, enqueued>>
       ELSE /\ lstPos' = lstPos + 1
            /\ IF lstPos + 1 \in lstProcessed
               THEN /\ lstSkipped' = lstSkipped + 1
                    /\ UNCHANGED <<lstPc, lstReplay, lstChan, queued, enqueued>>
               ELSE /\ lstChan' = Append(lstChan, lstPos + 1)
                    /\ enqueued' = enqueued + 1
                    /\ queued' = queued + 1
                    /\ IF LimitReached(limit, queued + 1)
                       THEN /\ lstPc' = "replay"
                            /\ lstReplay' = lstFailed
                       ELSE UNCHANGED <<lstPc, lstReplay>>
                    /\ UNCHANGED lstSkipped
    /\ UNCHANGED <<limit, lstProcessed, lstPending, lstFailed, lstStats,
                   last_processed, ticks>>

\* one iteration of the replay loop, or its end
LstReplayStep ==
    /\ lstPc = "replay"
    /\ IF lstReplay = {}
       THEN /\ lstPc' = "done"
            /\ UNCHANGED <<lstReplay, lstChan, enqueued>>
       ELSE \E u \in lstReplay :
              /\ lstReplay' = lstReplay \ {u}
              /\ IF u \notin lstProcessed
                 THEN \/ /\ lstChan' = Append(lstChan, u)
                         /\ enqueued' = enqueued + 1
                      \/ \* client.get raises: logged, the unit is not queued
                         UNCHANGED <<lstChan, enqueued>>
                 ELSE UNCHANGED <<lstChan, enqueued>>
              /\ UNCHANGED lstPc
    /\ UNCHANGED <<limit, queued, lstPos, lstProcessed, lstPending, lstFailed,
                   lstSkipped, lstStats, last_processed, ticks>>

\* a worker has extracted an item: merge_details, lines 392-394
LstMerge ==
    /\ lstChan # <<>>
    /\ lstChan' = Tail(lstChan)
    /\ lstPending' = Append(lstPending, Head(lstChan))
    /\ lstStats' = MergedCount(lstProcessed, Append(lstPending, Head(lstChan)),
                               lstSkipped)
    /\ UNCHANGED <<limit, queued, enqueued, lstPc, lstPos, lstReplay,
                   lstProcessed, lstFailed, lstSkipped, last_processed, ticks>>

\* the extraction of an item raises: the except branch of _process_single_pr
LstFail ==
    /\ lstChan # <<>>
    /\ lstChan' = Tail(lstChan)
    /\ lstFailed' = lstFailed \cup {Head(lstChan)}
    /\ UNCHANGED <<limit, queued, enqueued, lstPc, lstPos, lstReplay,
                   lstProcessed, lstPending, lstSkipped, lstStats,
                   last_processed, ticks>>

\* _checkpoint_task wakes up, lines 654-661: with progress it flushes (the
\* pending units become processed, the buffers are cleared) and saves
LstTick ==
    /\ ticks < MaxTicks
    /\ ticks' = ticks + 1
    /\ IF lstStats > last_processed
       THEN /\ lstProcessed' = lstProcessed \cup SeqSet(lstPending)
            /\ lstPending' = <<>>
            /\ last_processed' = lstStats
       ELSE UNCHANGED <<lstProcessed, lstPending, last_processed>>
    /\ UNCHANGED <<limit, queued, enqueued, lstPc, lstPos, lstReplay, lstChan,
                   lstFailed, lstSkipped, lstStats>>

\* a run starts with the limit it was given and what load_checkpoint found
LstInit ==
    /\ limit \in 0..MaxLimit
    /\ lstProcessed \in SUBSET Listed
    /\ lstFailed \in SUBSET Listed
    /\ queued = 0
    /\ enqueued = 0
    /\ lstPc = "list"
    /\ lstPos = 0
    /\ lstReplay = {}
    /\ lstChan = <<>>
    /\ lstPending = <<>>
    /\ lstSkipped = 0
    /\ lstStats = 0
    /\ last_processed = 0
    /\ ticks = 0

\* no run
LstIdle ==
    /\ limit = 0
    /\ lstProcessed = {}
    /\ lstFailed = {}
    /\ queued = 0
    /\ enqueued = 0
    /\ lstPc = "done"
    /\ lstPos = 0
    /\ lstReplay = {}
    /\ lstChan = <<>>
    /\ lstPending = <<>>
    /\ lstSkipped = 0
    /\ lstStats = 0
    /\ last_processed = 0
    /\ ticks = 0

LstNext ==
    \/ LstList
    \/ LstReplayStep
    \/ LstMerge
    \/ LstFail
    \/ LstTick

(***************************************************************************)
(* Specifications                                                          *)
(***************************************************************************)

Init == OrchInit /\ AuthIdle /\ GwInit /\ PgIdle /\ RecIdle /\ LstIdle
Next == OrchNext /\ UNCHANGED exceptOrch
Spec == Init /\ [][Next]_vars

\* the trio scheduler runs every task that can run; signals, kills and the
\* number of runs are up to the environment
Fairness ==
    /\ WF_vars(ProducerStep /\ UNCHANGED exceptOrch)
    /\ \A w \in Workers : WF_vars(WorkerStep(w) /\ UNCHANGED exceptOrch)
    /\ WF_vars(CheckpointStep /\ UNCHANGED exceptOrch)
    /\ WF_vars(DashboardWake /\ UNCHANGED exceptOrch)
    /\ WF_vars(RunStep /\ UNCHANGED exceptOrch)
FairNext == OneRunNext /\ UNCHANGED exceptOrch
FairSpec == Init /\ [][FairNext]_vars /\ Fairness

AuthSpecInit == AuthInit /\ OrchInit /\ GwInit /\ PgIdle /\ RecIdle /\ LstIdle
AuthSpecNext == AuthNext /\ UNCHANGED exceptAuth
AuthSpec == AuthSpecInit /\ [][AuthSpecNext]_vars

GatewayInit == GwInit /\ OrchInit /\ AuthIdle /\ PgIdle /\ RecIdle /\ LstIdle
GatewayNext == GwNext /\ UNCHANGED exceptGw
GatewaySpec == GatewayInit /\ [][GatewayNext]_vars

PaginateInit == PgInit /\ OrchInit /\ AuthIdle /\ GwInit /\ RecIdle /\ LstIdle
PaginateNext == PgNext /\ UNCHANGED exceptPg
PaginateSpec == PaginateInit /\ [][PaginateNext]_vars

RecordInit == RecInit /\ OrchInit /\ AuthIdle /\ GwInit /\ PgIdle /\ LstIdle
RecordNext == RecNext /\ UNCHANGED exceptRec
RecordSpec == RecordInit /\ [][RecordNext]_vars

ListingInit == LstInit /\ OrchInit /\ AuthIdle /\ GwInit /\ PgIdle /\ RecIdle
ListingNext == LstNext /\ UNCHANGED exceptLst
ListingSpec == ListingInit /\ [][ListingNext]_vars

(***************************************************************************)
(* Properties of the orchestrator                                          *)
(***************************************************************************)

\* C1: no loss. In every state, a crash between any two steps included, every
\* unit of the processed set of the checkpoint file has its record in the
\* store; and a step that writes the checkpoint file writes nothing to the
\* store, finds the units it records already stored, and leaves no unit
\* pending: the store is written first, the checkpoint second.
NoLossInvariant ==
    /\ [](ckptProcessed \subseteq StoredUnits)
    /\ [][<<ckptProcessed, ckptFailed>>' # <<ckptProcessed, ckptFailed>>
            => /\ store' = store
               /\ ckptProcessed' \subseteq StoredUnits
               /\ pending_prs = <<>>]_vars

\* a periodic flush has completed, then the process was killed during a later
\* flush between the write of the store and the write of the checkpoint
CrashBetweenStoreAndCheckpoint ==
    /\ runPc = "crashed"
    /\ ckptProcessed # {}
    /\ ckptProcessed \subseteq StoredUnits
    /\ StoredUnits \ ckptProcessed # {}

\* the producer has left its loops, the channel is empty and every worker has
\* left at the end of the channel, with no interrupt and no error
Drained ==
    /\ runPc = "running"
    /\ prodPc = "exited"
    /\ queue = <<>>
    /\ \A w \in Workers : wPc[w] = "exited"
    /\ ~stop_requested
    /\ ~childError

\* C2: once the listing is exhausted and the queue is drained, then, unless an
\* interrupt arrives or a save fails, the run reaches Completed, makes its
\* final save and run() returns.
CompletesWhenDrained ==
    Drained ~> \/ runPc = "returned" /\ state = "completed"
               \/ stop_requested
               \/ childError
               \/ runPc = "failed_save"

\* C3: however run() ends, by returning or by the exception of a child task,
\* it has made its final save: no merged unit is left in the pending list
\* only, and the checkpoint file holds the processed set.
FinalSaveOnEveryEnd ==
    runPc \in {"returned", "raised"}
        => /\ pending_prs = <<>>
           /\ ckptProcessed = processed_prs

\* C4: a worker that is extracting a unit when the interrupt arrives leaves
\* only after the unit has been merged into the buffers (or has got its error
\* record).
WorkersFinishCurrentUnit ==
    [][\A w \in Workers :
         (stop_requested' /\ runPc' = "running"
            /\ wPc[w] = "extract" /\ wPc'[w] = "exited")
         => (cur[w] \in SeqSet(pending_prs') \/ cur[w] \in failed_prs')]_vars

\* C5: the state is Paused exactly when an interrupt has been received, from
\* the step of the watcher to the end of the run; and in a step taken at or
\* after the interrupt nothing is put on the queue and no worker begins to
\* extract a unit.
InterruptPauses ==
    /\ [](stop_requested <=> state = "paused")
    /\ [][stop_requested'
            => /\ \E k \in 0..Len(queue) :
                    queue' = SubSeq(queue, k + 1, Len(queue))
               /\ \A w \in Workers :
                    wPc'[w] = "extract"
                        => wPc[w] = "extract" /\ cur'[w] = cur[w]]_vars

\* the interrupt has arrived while a unit was queued, a worker had its receive
\* completed and the producer was about to go on
InterruptWithWorkQueued ==
    /\ stop_requested
    /\ runPc = "running"
    /\ queue # <<>>
    /\ \E w \in Workers : wPc[w] = "recv"
    /\ prodPc \in {"list", "ratewait", "replay"}

(***************************************************************************)
(* Properties of the token cache                                           *)
(***************************************************************************)

\* C6: refreshes are serialized. At most one caller is inside the lock; an
\* exchange is under way only while the cached token is within the margin of
\* its expiry (or absent); as long as no exchange has failed and no exchanged
\* token has come within the margin, at most one exchange has been made, and
\* when every caller has returned from a cache that needed a refresh it is
\* exactly one, whose token every caller got; and a caller that finds the
\* cached token outside the margin returns it at once, with no exchange.
TokenRefreshSerialized ==
    /\ [](Cardinality({c \in Callers : aPc[c] \in {"locked", "fetching"}}) <= 1)
    /\ [](\A c \in Callers :
            aPc[c] = "fetching" => ~TokenValid(token, token_expires_at, authNow))
    /\ []((failedExchange = {} /\ authNow < TokenLifetime - RefreshMargin)
            => /\ exchanges <= 1
               /\ (~initValid /\ \A c \in Callers : aPc[c] = "returned")
                    => /\ exchanges = 1
                       /\ token # 0
                       /\ \A c \in Callers : aResult[c] = token)
    /\ [][\A c \in Callers :
            (aPc[c] = "idle" /\ aPc'[c] # "idle"
               /\ TokenValid(token, token_expires_at, authNow))
            => /\ aPc'[c] = "returned"
               /\ aResult'[c] = token
               /\ exchanges' = exchanges
               /\ token' = token]_vars

\* every caller has returned the token of the one exchange, after the others
\* had queued for the lock during it
AllCallersGotTheNewToken ==
    /\ ~initValid
    /\ exchanges = 1
    /\ failedExchange = {}
    /\ token # 0
    /\ \A c \in Callers : aPc[c] = "returned" /\ aResult[c] = token

\* C7: a caller whose exchange failed has raised and has been given no token;
\* the failure leaves the cached token and its expiry as they were; and it
\* releases the lock, which goes to the caller that waited longest, if any.
ExchangeFailurePropagates ==
    /\ [](\A c \in failedExchange : aPc[c] = "raised" /\ aResult[c] = 0)
    /\ [](lockHolder \notin failedExchange)
    /\ [][failedExchange' # failedExchange
            => /\ token' = token
               /\ token_expires_at' = token_expires_at
               /\ lockHolder' = IF lockWaiters = <<>> THEN 0
                                ELSE Head(lockWaiters)]_vars

\* an exchange has failed and a later caller is making the exchange again
ExchangeRetriedAfterFailure ==
    /\ failedExchange # {}
    /\ \E c \in Callers : c \notin failedExchange /\ aPc[c] = "fetching"

(***************************************************************************)
(* Properties of the gateway                                               *)
(***************************************************************************)

\* C8: the sleep after a 403 with a zero remaining count ends with the request
\* being sent again, not with an error, and not before max(reset - now, 60 s)
\* have passed since the response.
PrimaryLimitWaitsAndResends ==
    [][(gPc = "sleeping" /\ sleepCause = "primary" /\ gPc' # "sleeping")
         => /\ gPc' = "await_resp"
            /\ gNow' >= respAt + Max(resp.reset - respAt, PrimaryMinWait)]_vars

\* C9: a 429, or a 403 with a Retry-After header, whatever its remaining
\* count, makes the gateway sleep Retry-After seconds, to retry after it.
SecondaryLimitSleepsAndRetries ==
    [][(gPc = "await_resp" /\ request_count' = request_count + 1
          /\ (resp'.status = 429 \/ (resp'.status = 403 /\ resp'.has_retry_after)))
         => /\ gPc' = "sleeping"
            /\ resp'.has_retry_after => wakeAt' = gNow' + resp'.retry_after]_vars

\* C10: _request does not raise because of rate-limit responses: when it gives
\* up with "Max retries exceeded", some attempt got another response.
RateLimitsNeverRaise ==
    (gPc = "raised" /\ raiseCause = "max_retries") => otherCount > 0

\* C11: a response with status >= 500 makes _request sleep 2^attempt seconds
\* and go on; one call sends at most max_retries (3) requests; a response
\* below 400 is returned at once; and "Max retries exceeded" is raised exactly
\* when the three attempts have been used up.
ServerErrorRetriedWithinBudget ==
    /\ [](rlCount + otherCount + (IF gPc = "await_resp" THEN 1 ELSE 0)
              <= MaxRetries)
    /\ []((gPc = "raised" /\ raiseCause = "max_retries")
              <=> (gPc = "raised" /\ resp.status # 0 /\ attempt = MaxRetries))
    /\ [][(gPc = "await_resp" /\ request_count' = request_count + 1)
            => /\ resp'.status >= 500
                    => /\ gPc' = "sleeping"
                       /\ wakeAt' = gNow' + Pow2(attempt)
               /\ resp'.status < 400 => gPc' = "returned"]_vars
    /\ [][(gPc = "sleeping" /\ sleepCause = "server" /\ gPc' # "sleeping")
            => /\ gNow' >= respAt + Pow2(attempt)
               /\ gPc' = IF attempt + 1 < MaxRetries THEN "await_resp"
                         ELSE "raised"]_vars

\* three responses with status >= 500 in a row have used up the budget
ThreeServerErrorsRaise ==
    /\ gPc = "raised"
    /\ raiseCause = "max_retries"
    /\ rlCount = 0
    /\ otherCount = MaxRetries
    /\ resp.status >= 500

\* C12: a transport error of the HTTP call reaches the caller only when the
\* retries are used up, that is, on the last attempt of the loop.
TransportErrorRetried ==
    (gPc = "raised" /\ raiseCause = "transport") => attempt = MaxRetries - 1

(***************************************************************************)
(* Properties of pagination                                                *)
(***************************************************************************)

\* the items 1..n in their original order
AllItems(n) == [i \in 1..n |-> i]

\* C13, as stated: without max_pages, paginate yields exactly the N items in
\* their order with exactly ceil(N/P) requests.
PaginateCeilRequests ==
    (pgPc = "done" /\ max_pages = 0)
        => /\ yielded = AllItems(totalItems)
           /\ pageRequests = (totalItems + per_page - 1) \div per_page

\* C13, amended: without max_pages, paginate yields exactly the N items in
\* their order and stops at the first short or empty page, which takes
\* floor(N/P) + 1 requests: ceil(N/P) when the last page is short, and one
\* more, for the empty page, when P divides N (N = 0 included).
PaginateComplete ==
    /\ pgPc = "done" /\ max_pages = 0
         => /\ yielded = AllItems(totalItems)
            /\ pageRequests = (totalItems \div per_page) + 1
            /\ ShortPage(PageOf(totalItems, per_page, page), per_page)
    /\ pgPc = "running"
         => /\ page = pageRequests + 1
            /\ yielded = AllItems(pageRequests * per_page)
            /\ pageRequests * per_page <= totalItems

\* full pages only: the listing has ended on a page boundary
EndedOnFullPage ==
    /\ pgPc = "done"
    /\ max_pages = 0
    /\ totalItems > per_page
    /\ totalItems % per_page = 0
    /\ yielded = AllItems(totalItems)

\* C16: no duplication. In every state, after any sequence of runs, the
\* persisted table of units holds at most one record per unit.
AtMostOneRecordPerUnit == \A u \in Units : store[u] <= 1

\* the producer is blocked in send_channel.send
SendBlocked == prodPc \in {"send_list", "send_replay"}

\* C19: backpressure. The queue never holds more than its capacity; the
\* producer becomes blocked in a send only when the queue is full, and then
\* the item is not queued; a blocked send completes only when the queue has
\* room again, which only a worker's receive makes, and then queues the held
\* item; and the program's capacity is at least its number of workers.
QueueBackpressure ==
    /\ [](Len(queue) <= QueueCap)
    /\ [][(~SendBlocked /\ SendBlocked')
            => /\ Len(queue) = QueueCap
               /\ queue' = queue
               /\ prodItem' \in Units]_vars
    /\ [][(SendBlocked /\ ~SendBlocked' /\ prodPc' # "exited")
            => /\ Len(queue) < QueueCap
               /\ queue' = Append(queue, prodItem)]_vars
    /\ [][(SendBlocked /\ Len(queue) = QueueCap /\ Len(queue') < QueueCap
             /\ runPc' = "running")
            => \E w \in Workers : wPc[w] = "recv" /\ wPc'[w] # "recv"]_vars
    /\ PR_QUEUE_SIZE >= CONCURRENT_PRS

\* the producer is blocked on a full queue while a worker is still extracting
ProducerBlockedOnFullQueue ==
    /\ SendBlocked
    /\ ~cancelled
    /\ Len(queue) = QueueCap
    /\ \E w \in Workers : wPc[w] = "extract"

\* C20: low-water backpressure. Every enqueue comes after a check of the
\* rate-limit gauge, that is from the listing loop, where the check is made;
\* and the check of the gauge for a listed unit raises nothing.
LowWaterCheckedBeforeEnqueue ==
    /\ [][(Len(queue') > Len(queue) \/ (~SendBlocked /\ SendBlocked'))
            => prodPc \in {"list", "ratewait", "send_list"}]_vars
    /\ [][(prodPc = "list" /\ listPos' = listPos + 1 /\ ~stop_requested)
            => childError' = childError]_vars

\* C23: resumption filter. A unit the listing yields, with no stop and no
\* cancellation, is counted as skipped and not queued when it is in the
\* processed set, and is sent on the channel otherwise, at once or after the
\* wait for the rate limit; and a run starts from the processed set of the
\* checkpoint minus stored units of the refresh window.
ResumptionFilter ==
    /\ [][(prodPc = "list" /\ listPos' = listPos + 1 /\ ~stop_requested
             /\ ~cancelled)
            => \/ prodPc' = "ratewait" /\ queue' = queue
                  /\ stats_skipped' = stats_skipped
               \/ /\ listPos + 1 \in processed_prs
                  /\ stats_skipped' = stats_skipped + 1
                  /\ queue' = queue
                  /\ prodPc' = "list"
               \/ /\ listPos + 1 \notin processed_prs
                  /\ stats_skipped' = stats_skipped
                  /\ \/ queue' = Append(queue, listPos + 1)
                     \/ prodPc' = "send_list" /\ prodItem' = listPos + 1]_vars
    /\ [][(runPc # "running" /\ runPc' = "running")
            => \E recent \in SUBSET StoredUnits :
                 processed_prs' = ckptProcessed \ recent]_vars

NoUnitProcessedAndFailed == ckptProcessed \cap ckptFailed = {}

\* C28: stats.processed_prs is the number of units merged in the current
\* run: every merge adds exactly one to it, and within a run it is never
\* negative and never decreases.
StatsCountNewMerges ==
    /\ [](stats_processed >= 0)
    /\ [][Len(prs') = Len(prs) + 1
            => stats_processed' = stats_processed + 1]_vars
    /\ [][(runPc = "running" /\ runPc' = "running")
            => stats_processed' >= stats_processed]_vars

\* C24: live rate-limit gauge. The client has a rate_limit_remaining, which
\* is 5000 before any response and, after a response, the remaining count
\* that response reported.
GaugeTracksHeaders ==
    /\ [](rlGauge.defined)
    /\ [](request_count = 0 => rlGauge.remaining = 5000)
    /\ [][request_count' # request_count
            => rlGauge'.remaining = resp'.remaining]_vars

\* C30: every attempt is sent with a token that is still valid: while an
\* attempt is on its way, the installation token of its header has not
\* expired.
AttemptsCarryValidToken ==
    (gPc = "await_resp" /\ authExpiresAt # 0) => authExpiresAt > gNow

(***************************************************************************)
(* Properties of the records                                               *)
(***************************************************************************)

\* the retries a checkpoint document records for unit u (0: no record)
RetriesIn(doc, u) ==
    IF \E i \in DOMAIN doc.failed_prs : doc.failed_prs[i].pr_number = u
    THEN doc.failed_prs[CHOOSE i \in DOMAIN doc.failed_prs :
                            doc.failed_prs[i].pr_number = u].retries
    ELSE 0

\* a document lists every unit once
NoRepeats(doc) ==
    /\ Cardinality(SeqSet(doc.processed_prs)) = Len(doc.processed_prs)
    /\ \A i, j \in DOMAIN doc.failed_prs :
         doc.failed_prs[i].pr_number = doc.failed_prs[j].pr_number => i = j

\* C14: the checkpoint file is never a truncated one, whenever the process is
\* killed; it changes only by the rename, to a document that holds exactly
\* the processed set and the retries of every ErrorRecord of that moment; and
\* a load (without a refresh window) gives back exactly the processed set and
\* the retries the file holds.
CheckpointRoundTrip ==
    /\ [](files["checkpoint"].kind \in {"none", "full"})
    /\ [][files'["checkpoint"] # files["checkpoint"]
            => /\ recPc = "rename"
               /\ NoRepeats(files'["checkpoint"])
               /\ SeqSet(files'["checkpoint"].processed_prs) = rec_processed
               /\ \A u \in Units :
                    RetriesIn(files'["checkpoint"], u) = rec_failed[u]]_vars
    /\ [][(recPc = "dead" /\ recPc' = "idle" /\ refreshed' = {}
             /\ files["checkpoint"].kind = "full")
            => /\ rec_processed' = SeqSet(files["checkpoint"].processed_prs)
               /\ \A u \in Units :
                    rec_failed'[u] = RetriesIn(files["checkpoint"], u)]_vars

\* the process was killed between the write of the temporary file and the
\* rename, and the next process has loaded the old checkpoint, whole
LoadedAfterKillBeforeRename ==
    /\ recPc = "idle"
    /\ kills > 0
    /\ files["temp"].kind = "full"
    /\ files["checkpoint"].kind = "full"
    /\ files["temp"] # files["checkpoint"]
    /\ refreshed = {}
    /\ rec_processed = SeqSet(files["checkpoint"].processed_prs)
    /\ \E u \in Units : rec_failed[u] > 0

\* C15: an upsert leaves, for every unit of the batch, exactly the rows of the
\* batch in prs.parquet and in every child table, and leaves the rows of the
\* other units as they were.
UpsertReplacesByUnit ==
    [][(recPc = "idle" /\ recPc' = "open")
         => /\ \A r \in Rows :
                 tbl_reviews'[r] = IF r[1] \in UpdatedUnits(buf_prs)
                                   THEN buf_reviews[r] ELSE tbl_reviews[r]
            /\ \A u \in Units :
                 tbl_prs'[u] = IF u \in UpdatedUnits(buf_prs)
                               THEN buf_prs[u] ELSE tbl_prs[u]]_vars

\* C17: a unit one of whose sub-fetches raised is merged all the same: it is
\* appended to the pending list and its record to the buffer, the error
\* string is set for it, and neither the failed map nor the failure counter
\* changes; and a flush stores the pending units and moves them to the
\* processed set.
PartialFailureStillMerged ==
    /\ [][(details # NoDetails /\ details.errors # {}
             /\ details' = NoDetails /\ recPc' = "idle")
            => /\ rec_pending' = Append(rec_pending, details.unit)
               /\ buf_prs'[details.unit] = buf_prs[details.unit] + 1
               /\ last_error' = [unit |-> details.unit, kind |-> "partial"]
               /\ rec_failed' = rec_failed
               /\ stats_failed' = stats_failed]_vars
    /\ [][(recPc = "idle" /\ recPc' = "open")
            => /\ rec_processed' = rec_processed \cup SeqSet(rec_pending)
               /\ rec_pending' = <<>>
               /\ \A u \in SeqSet(rec_pending) : tbl_prs'[u] > 0]_vars

\* a unit with a failed sub-fetch has been flushed: it is processed and has
\* no ErrorRecord
PartialFailureProcessed ==
    /\ last_error.kind = "partial"
    /\ last_error.unit \in rec_processed
    /\ rec_failed[last_error.unit] = 0
    /\ tbl_prs[last_error.unit] > 0

\* C18: a failure of the whole processing of a unit adds one to the failure
\* counter and one to the retries of the unit's ErrorRecord (0 + 1 when it
\* had none), sets the error string, and touches neither the pending list,
\* the processed set nor the buffers; the retries a restarted process starts
\* from are those of the checkpoint file.
TotalFailureRecorded ==
    /\ [][(stats_failed' # stats_failed /\ recPc' # "dead")
            => /\ stats_failed' = stats_failed + 1
               /\ \E u \in Units :
                    /\ rec_failed' = [rec_failed EXCEPT ![u] = rec_failed[u] + 1]
                    /\ last_error' = [unit |-> u, kind |-> "total"]
               /\ UNCHANGED <<rec_pending, rec_processed, buf_prs, buf_reviews,
                              tbl_prs, tbl_reviews>>]_vars
    /\ [][(recPc = "dead" /\ recPc' = "idle")
            => \A u \in Units :
                 rec_failed'[u] = RetriesIn(files["checkpoint"], u)]_vars
    /\ [][rec_failed' # rec_failed
            => \/ stats_failed' = stats_failed + 1
               \/ recPc' = "dead"
               \/ recPc = "dead"]_vars

\* a unit has failed in one process and again in the next one
FailedAgainAfterRestart ==
    /\ kills > 0
    /\ recPc = "idle"
    /\ \E u \in Units :
         /\ rec_failed[u] = RetriesIn(files["checkpoint"], u) + 1
         /\ rec_failed[u] >= 2
         /\ last_error = [unit |-> u, kind |-> "total"]

\* C25: a failed token exchange during the processing of a unit is fatal: the
\* unit whose sub-fetch met it is not merged, neither pending nor buffered.
TokenFailureIsFatal ==
    [][(details # NoDetails /\ "token" \in details.errors
          /\ details' = NoDetails /\ recPc' = "idle")
         => /\ rec_pending' = rec_pending
            /\ buf_prs' = buf_prs]_vars

\* C29: the buffers and the pending list agree in every state: the units
\* buffer holds one record per entry of the pending list and every buffered
\* child record is of a pending unit; and a processing that ends without a
\* PRDetails, by a total failure or by cancellation, changes none of them.
BuffersAgreeWithPending ==
    /\ [](\A u \in Units : buf_prs[u] = Count(rec_pending, u))
    /\ [](\A r \in Rows : buf_reviews[r] > 0 => r[1] \in SeqSet(rec_pending))
    /\ [][(processings' = processings + 1 /\ details' = NoDetails)
            => UNCHANGED <<buf_prs, buf_reviews, rec_pending>>]_vars

\* a unit is pending with a child record buffered, after another processing
\* has failed as a whole
PendingWithChildRecords ==
    /\ rec_pending # <<>>
    /\ \E r \in Rows : buf_reviews[r] > 0
    /\ stats_failed > 0
    /\ recPc = "idle"

(***************************************************************************)
(* Properties of one run counted                                           *)
(***************************************************************************)

\* C21: periodic checkpoint. At every wake-up of the checkpoint task at which
\* units are pending, the task flushes: the pending units are in the
\* processed set afterwards and none stays pending.
TickFlushesPending ==
    [][(ticks' = ticks + 1 /\ lstPending # <<>>)
         => /\ lstPending' = <<>>
            /\ SeqSet(lstPending) \subseteq lstProcessed']_vars

\* C22: unit-count limit. In a run that was given a limit L, at most L items
\* are sent on the channel.
AtMostLimitEnqueued == limit # 0 => enqueued <= limit

====
